---- MODULE Spec2Model ----
(***************************************************************************)
(* Model of e2w.ExportToWord (src/src/e2w/e2w.py): the concurrent render   *)
(* of a template into one shared document.                                 *)
(*                                                                         *)
(* render() submits every top-level Tag of the parsed template to a        *)
(* ThreadPoolExecutor(max_workers).  Each task runs _process_tag, which    *)
(* takes the session's single threading.Lock and runs the tag's handler    *)
(* while holding it.  The dataframe handler loads its data, adds a table   *)
(* and, for more than chunk_size rows, starts a second pool of chunk       *)
(* tasks (_process_chunk) that take the same lock.                         *)
(*                                                                         *)
(* The sequential parts have specifications of their own over the same     *)
(* variables: the normalizer (NormSpec), the constructor, binder and       *)
(* validator (BindSpec), and the list, image, heading and blank_table      *)
(* handlers (ListSpec, ImageSpec, HeadingSpec, BlankSpec).                 *)
(***************************************************************************)
EXTENDS Integers, Sequences, FiniteSets, TLC

\* ------------------------------------------------------------------ bounds
MaxNodes == 2       \* top-level nodes of a template
MaxWorkers == 2     \* max_workers ranges over 1..MaxWorkers
MaxRows == 2        \* rows a data source returns: 0..MaxRows
MaxChunkSize == 1   \* chunk_size ranges over 1..MaxChunkSize
MaxRowsAttr == 1    \* the max_rows attribute is 0 (absent) or MaxRowsAttr
MaxRenders == 2     \* calls of render() on one session object
MaxLines == 4       \* lines of a raw template given to the normalizer
MaxBrackets == 2    \* '<' (and '>') characters on one line: 0..MaxBrackets
MaxTokens == 3      \* words and placeholders of a one-line template
MaxItems == 2       \* li children of one ul/ol: 1..MaxItems
MaxNested == 1      \* ul/ol children of one li: 0..MaxNested
MaxImageSide == 4   \* pixel width and height of an image: 1..MaxImageSide
MaxHeadingLevels == 12  \* heading_levels ranges over 1..MaxHeadingLevels
MaxTableRows == 3   \* a numeric rows attribute: 1..MaxTableRows
MaxTableCols == 3   \* a numeric columns attribute: 1..MaxTableCols
MaxNames == 4       \* names in a columns_name attribute: 1..MaxNames

\* ------------------------------------------------------------- the template
\* A top-level node of soup.contents.  "text" is a NavigableString (the "\n"
\* between lines, or loose text); every other tag value is a Tag.
\*   input:    base64-image: what the element's text holds
\*             dataframe:    which source attribute the tag has
\*   max_rows: the dataframe's max_rows attribute (0: all rows)
Node(tag, input, max_rows) == [tag |-> tag, input |-> input, max_rows |-> max_rows]

TextNodes == {Node("text", "-", 0)}
ParagraphNodes == {Node("p", "-", 0)}
Base64Nodes == {Node("base64-image", c, 0) : c \in {"ok", "no_prefix", "no_payload", "undecodable"}}
DataframeNodes == {Node("dataframe", a, m) : a \in {"src", "api", "none"}, m \in {0, MaxRowsAttr}}
Nodes == TextNodes \cup ParagraphNodes \cup Base64Nodes \cup DataframeNodes

SeqsUpTo(S, n) == UNION {[1..k -> S] : k \in 1..n}
Templates == SeqsUpTo(Nodes, MaxNodes)

\* ---------------------------------------------------------------- threads
\* The thread that calls render(), one task per top-level node, one task per
\* chunk of a node's table.
None == <<"none", 0, 0>>
Main == <<"main", 0, 0>>
TagT(i) == <<"tag", i, 0>>
ChunkT(i, c) == <<"chunk", i, c>>
TagThreads == {TagT(i) : i \in 1..MaxNodes}
ChunkThreads == {ChunkT(i, c) : i \in 1..MaxNodes, c \in 1..MaxRows}
Threads == {Main} \cup TagThreads \cup ChunkThreads

VARIABLES
    template,      \* self.template_content as parsed: the top-level nodes
    max_workers,   \* self.max_workers
    chunk_size,    \* self.chunk_size
    pc,            \* where render() is (pc[Main]) and where each task is
    lock,          \* self._lock: its holder, or None
    rowsTodo,      \* per task: the rows its row loop has still to append
    doc,           \* self.document: the top-level fragments, in append order
    tables,        \* per node: the data rows of its table, in append order
    df,            \* per node: len(df) once loaded (and limited by max_rows)
    loadResult,    \* per node: how the data load ended
    raised,        \* per node: _process_tag caught an exception of its handler
    saves          \* how many times self.document.save() has run

renderVars == <<template, max_workers, chunk_size, pc, lock, rowsTodo, doc,
                tables, df, loadResult, raised, saves>>

\* The render variables when no render is modelled.
RenderIdle ==
    /\ template = <<>>
    /\ max_workers = 1
    /\ chunk_size = 1
    /\ pc = [t \in Threads |-> "absent"]
    /\ lock = None
    /\ rowsTodo = [t \in Threads |-> <<>>]
    /\ doc = <<>>
    /\ tables = [i \in 1..MaxNodes |-> <<>>]
    /\ df = [i \in 1..MaxNodes |-> 0]
    /\ loadResult = [i \in 1..MaxNodes |-> "-"]
    /\ raised = [i \in 1..MaxNodes |-> FALSE]
    /\ saves = 0

\* ------------------------------------------- _format_template_to_html: state
VARIABLES
    lines,               \* content.splitlines(): the lines of the raw template
    lineNo,              \* the index of the line the loop is at
    html_lines,          \* the units emitted so far
    in_html_block,       \* the flag of the same name
    current_html_block,  \* the list of the same name
    normDone             \* the function has returned

normVars == <<lines, lineNo, html_lines, in_html_block, current_html_block, normDone>>

NormIdle ==
    /\ lines = <<>>
    /\ lineNo = 0
    /\ html_lines = <<>>
    /\ in_html_block = FALSE
    /\ current_html_block = <<>>
    /\ normDone = FALSE

\* ------------------------------ __init__, validate_template, render: state
VARIABLES
    template_file,      \* the argument: "none", "missing" (no such file), "exists"
    content_given,      \* the argument template_content is a non-empty string
    context,            \* self.context: the names it binds
    rawText,            \* the text of the file, or of template_content
    template_content,   \* self.template_content
    sessionPc,          \* where the session object is
    documentCreated,    \* self.document exists
    docText,            \* the paragraphs of self.document, each the text of its runs
    validation_result   \* what validate_template returned last

bindVars == <<template_file, content_given, context, rawText, template_content,
              sessionPc, documentCreated, docText, validation_result>>

BindIdle ==
    /\ template_file = "none"
    /\ content_given = FALSE
    /\ context = {}
    /\ rawText = <<>>
    /\ template_content = [wrapped |-> FALSE, tokens |-> <<>>]
    /\ sessionPc = "idle"
    /\ documentCreated = FALSE
    /\ docText = <<>>
    /\ validation_result = <<>>

\* ------------------------------------------------------ _handle_list: state
VARIABLES
    listTag,          \* the ul/ol Tag given to _handle_list
    listParagraphs,   \* the list paragraphs added to the document, in order
    listPc            \* "ready" before the call, "done" after it

listVars == <<listTag, listParagraphs, listPc>>

ListIdle ==
    /\ listTag = [tag |-> "ul", items |-> <<>>]
    /\ listParagraphs = <<>>
    /\ listPc = "idle"

\* ----------------------------------------------------- _handle_image: state
VARIABLES
    page_dimensions,  \* self.page_dimensions, in hundredths of an inch
    image_max_size,   \* self.image_max_size, in hundredths of an inch
    img_size,         \* img.size: the pixel width and height of the image file
    tag_size,         \* the width and height attributes of the tag, 0 if absent
    picture,          \* the width and height given to run.add_picture
    imagePc           \* "ready" before the call, "done" after it

imageVars == <<page_dimensions, image_max_size, img_size, tag_size, picture, imagePc>>

ImageIdle ==
    /\ page_dimensions = <<0, 0>>
    /\ image_max_size = <<0, 0>>
    /\ img_size = <<1, 1>>
    /\ tag_size = <<0, 0>>
    /\ picture = <<>>
    /\ imagePc = "idle"

\* --------------------------------------------------- _handle_heading: state
VARIABLES
    heading_levels,   \* self.heading_levels
    headingTag,       \* tag.name of the Tag given to _process_tag, as characters
    headings,         \* the paragraphs the call added to the document
    headingPc         \* "ready" before the call, "done" or "raised" after it

headingVars == <<heading_levels, headingTag, headings, headingPc>>

HeadingIdle ==
    /\ heading_levels = 1
    /\ headingTag = <<>>
    /\ headings = <<>>
    /\ headingPc = "idle"

\* ----------------------------------------------- _handle_blank_table: state
VARIABLES
    rows_attr,          \* the rows attribute: absent, not a number, or a number
    columns_attr,       \* the columns attribute, likewise
    columns_name_attr,  \* how many names columns_name holds; 0: no attribute
    blank_tables,       \* the tables the call added to the document
    blankPc             \* "ready" before the call, "done" or "raised" after it

blankVars == <<rows_attr, columns_attr, columns_name_attr, blank_tables, blankPc>>

BlankIdle ==
    /\ rows_attr = [kind |-> "absent", n |-> 0]
    /\ columns_attr = [kind |-> "absent", n |-> 0]
    /\ columns_name_attr = 0
    /\ blank_tables = <<>>
    /\ blankPc = "idle"

\* The variables of the other components.
others == <<normVars, bindVars, listVars, imageVars, headingVars, blankVars>>
notNorm == <<renderVars, bindVars, listVars, imageVars, headingVars, blankVars>>
notBind == <<renderVars, normVars, listVars, imageVars, headingVars, blankVars>>
notList == <<renderVars, normVars, bindVars, imageVars, headingVars, blankVars>>
notImage == <<renderVars, normVars, bindVars, listVars, headingVars, blankVars>>
notHeading == <<renderVars, normVars, bindVars, listVars, imageVars, blankVars>>
notBlank == <<renderVars, normVars, bindVars, listVars, imageVars, headingVars>>

vars == <<renderVars, others>>

config == <<template, max_workers, chunk_size>>

NodeIds == 1..Len(template)
IsTag(i) == template[i].tag # "text"

Min(a, b) == IF a < b THEN a ELSE b
Iota(a, b) == [k \in 1..(IF b >= a THEN b - a + 1 ELSE 0) |-> a + k - 1]

Fragment(i, kind) == [node |-> i, kind |-> kind]

\* ------------------------------------------------------------------- init
RenderInit ==
    /\ template \in Templates
    /\ max_workers \in 1..MaxWorkers
    /\ chunk_size \in 1..MaxChunkSize
    /\ pc = [t \in Threads |-> IF t = Main THEN "ready" ELSE "absent"]
    /\ lock = None
    /\ rowsTodo = [t \in Threads |-> <<>>]
    /\ doc = <<>>
    /\ tables = [i \in 1..MaxNodes |-> <<>>]
    /\ df = [i \in 1..MaxNodes |-> 0]
    /\ loadResult = [i \in 1..MaxNodes |-> "-"]
    /\ raised = [i \in 1..MaxNodes |-> FALSE]
    /\ saves = 0

\* The other components at rest.
OthersIdle == NormIdle /\ BindIdle /\ ListIdle /\ ImageIdle /\ HeadingIdle /\ BlankIdle

Init == RenderInit /\ OthersIdle

\* ----------------------------------------------------------------- render
renderPc == pc[Main]

\* render(): every Tag of soup.contents is submitted, in document order.
render_submit ==
    /\ renderPc = "ready"
    /\ pc' = [t \in Threads |->
                IF t = Main THEN "as_completed"
                ELSE IF t \in TagThreads /\ t[2] \in NodeIds /\ IsTag(t[2])
                THEN "queued" ELSE pc[t]]
    /\ UNCHANGED <<others, config, saves, lock, rowsTodo, doc, tables, df, loadResult, raised>>

\* chunks = [df.iloc[i:i+chunk_size] for i in range(0, total_rows, chunk_size)]
NumChunks(n, cs) == (n + cs - 1) \div cs
Chunk(n, cs, c) == Iota((c - 1) * cs + 1, Min(c * cs, n))

\* The tasks a thread has submitted to its executor: render() the top-level
\* tags, a dataframe handler the chunks of its table.
Submitted(o) ==
    IF o = Main THEN {TagT(i) : i \in {j \in NodeIds : IsTag(j)}}
    ELSE {ChunkT(o[2], c) : c \in 1..NumChunks(df[o[2]], chunk_size)}

\* `for future in as_completed(...)` and the exit of `with ThreadPoolExecutor`
\* return once every submitted task is done (render, lines 85-91;
\* _process_dataframe_chunks, lines 477-482).
\* (mutant: the wait ends with the first finished task)
AnyFutureDone(o) == \E t \in Submitted(o) : pc[t] = "done"

AllFuturesDone(o) == \A t \in Submitted(o) : pc[t] = "done"

executor_join(o) ==
    /\ pc[o] \in {"as_completed", "wait_chunks"}
    /\ AllFuturesDone(o)
    /\ pc' = [pc EXCEPT ![o] = IF o = Main THEN "save" ELSE "exit"]
    /\ UNCHANGED <<others, config, saves, lock, rowsTodo, doc, tables, df, loadResult, raised>>

\* self.document.save(self.output_path)
render_save ==
    /\ renderPc = "save"
    /\ pc' = [pc EXCEPT ![Main] = "sealed"]
    /\ saves' = saves + 1
    /\ UNCHANGED <<others, config, lock, rowsTodo, doc, tables, df, loadResult, raised>>

\* ------------------------------------------------------------ worker pools
Pool(t) == IF t[1] = "tag" THEN TagThreads ELSE {ChunkT(t[2], c) : c \in 1..MaxRows}
PoolSize(t) ==
    IF t[1] = "tag" THEN max_workers
    ELSE Min(max_workers, NumChunks(df[t[2]], chunk_size))
Index(t) == IF t[1] = "tag" THEN t[2] ELSE t[3]
Running(t) == {u \in Pool(t) : pc[u] \notin {"absent", "queued", "done"}}

\* A pool thread takes the next task of its queue (first in, first out).
pool_start(t) ==
    /\ pc[t] = "queued"
    /\ \A u \in Pool(t) : Index(u) < Index(t) => pc[u] # "queued"
    /\ Cardinality(Running(t)) < PoolSize(t)
    /\ pc' = [pc EXCEPT ![t] = "wait_lock"]
    /\ UNCHANGED <<others, config, saves, lock, rowsTodo, doc, tables, df, loadResult, raised>>

\* ---------------------------------------------------------------- the lock
\* (mutant: the handler is entered without taking the lock's state into account)
LockNotChecked == TRUE

LockFree == lock = None

\* `with self._lock:` on entry, in _process_tag and in _process_chunk.
lock_acquire(t) ==
    /\ pc[t] = "wait_lock"
    /\ LockFree
    /\ lock' = t
    /\ pc' = [pc EXCEPT ![t] = IF t[1] = "tag" THEN "handler" ELSE "rows"]
    /\ UNCHANGED <<others, config, saves, rowsTodo, doc, tables, df, loadResult, raised>>

\* `with self._lock:` on exit, by return or by exception; in _process_tag the
\* exception is then caught and printed.
lock_release(t) ==
    /\ pc[t] = "exit"
    /\ lock' = None
    /\ pc' = [pc EXCEPT ![t] = "done"]
    /\ UNCHANGED <<others, config, saves, rowsTodo, doc, tables, df, loadResult, raised>>

\* --------------------------------------------------------------- handlers
InHandler(i, tag) == i \in NodeIds /\ template[i].tag = tag /\ pc[TagT(i)] = "handler"

\* _add_paragraph: one paragraph for a p tag.
add_paragraph(i) ==
    /\ InHandler(i, "p")
    /\ doc' = Append(doc, Fragment(i, "paragraph"))
    /\ pc' = [pc EXCEPT ![TagT(i)] = "exit"]
    /\ UNCHANGED <<others, config, saves, lock, rowsTodo, tables, df, loadResult, raised>>

\* _handle_base64_image: text that does not start with data:image/ raises
\* ValueError; an empty payload adds nothing; a payload that cannot be decoded
\* adds an error paragraph; otherwise a picture is added.
Base64Raises(input) == input = "no_prefix"

Base64Output(input) ==
    CASE input = "ok" -> <<"picture">>
      [] input = "undecodable" -> <<"error">>
      [] OTHER -> <<>>

handle_base64_image(i) ==
    /\ InHandler(i, "base64-image")
    /\ LET input == template[i].input
       IN /\ raised' = [raised EXCEPT ![i] = Base64Raises(input)]
          /\ doc' = doc \o [k \in 1..Len(Base64Output(input)) |->
                              Fragment(i, Base64Output(input)[k])]
    /\ pc' = [pc EXCEPT ![TagT(i)] = "exit"]
    /\ UNCHANGED <<others, config, saves, lock, rowsTodo, tables, df, loadResult>>

\* _handle_dataframe, up to the blocking load: a src path that does not exist
\* and a tag with neither src nor api leave df empty without loading.
handle_dataframe(i) ==
    /\ InHandler(i, "dataframe")
    /\ \E exists \in BOOLEAN :
         LET attr == template[i].input
             loads == attr = "api" \/ (attr = "src" /\ exists)
         IN /\ pc' = [pc EXCEPT ![TagT(i)] = IF loads THEN "loading" ELSE "loaded"]
            /\ loadResult' = [loadResult EXCEPT ![i] =
                                IF loads THEN "-"
                                ELSE IF attr = "src" THEN "src_missing" ELSE "no_source"]
    /\ UNCHANGED <<others, config, saves, lock, rowsTodo, doc, tables, df, raised>>

\* What pd.read_csv / requests.post can end in.  "error": an exception;
\* "non200": a response whose status is not 200 (api only); "ok": n rows.
LoadOutcomes(attr) ==
    {[result |-> "error", rows |-> 0]}
    \cup {[result |-> "ok", rows |-> n] : n \in 0..MaxRows}
    \cup (IF attr = "api" THEN {[result |-> "non200", rows |-> 0]} ELSE {})

\* (mutant: the except branch lacks its return and falls through to df.empty)
AfterLoadNoReturn(result) == "loaded"

\* Where the handler goes after the load: the except branches add their error
\* paragraph and return; otherwise the df.empty test follows.
AfterLoad(result) == IF result = "error" THEN "exit" ELSE "loaded"

\* _handle_dataframe, the blocking load (pd.read_csv or requests.post).
dataframe_load(i) ==
    /\ i \in NodeIds
    /\ pc[TagT(i)] = "loading"
    /\ \E out \in LoadOutcomes(template[i].input) :
         /\ loadResult' = [loadResult EXCEPT ![i] = out.result]
         /\ df' = [df EXCEPT ![i] = out.rows]
         /\ doc' = IF out.result = "error" THEN Append(doc, Fragment(i, "error")) ELSE doc
         /\ pc' = [pc EXCEPT ![TagT(i)] = AfterLoad(out.result)]
    /\ UNCHANGED <<others, config, saves, lock, rowsTodo, tables, raised>>

\* df.head(max_rows) when max_rows > 0 and len(df) > max_rows
LimitRows(n, max_rows) == IF max_rows > 0 /\ n > max_rows THEN max_rows ELSE n

\* _handle_dataframe after the load: an empty df adds one error paragraph;
\* otherwise the table and its header row are added, and the rows go to the
\* chunk pool (total_rows > chunk_size) or to the handler's own row loop.
dataframe_table(i) ==
    /\ i \in NodeIds
    /\ pc[TagT(i)] = "loaded"
    /\ LET n == LimitRows(df[i], template[i].max_rows)
           chunked == n > chunk_size
       IN /\ df' = [df EXCEPT ![i] = n]
          /\ doc' = Append(doc, Fragment(i, IF df[i] = 0 THEN "error" ELSE "table"))
          /\ pc' = [t \in Threads |->
                      IF t = TagT(i)
                      THEN (IF df[i] = 0 THEN "exit"
                            ELSE IF chunked THEN "wait_chunks" ELSE "rows")
                      ELSE IF df[i] # 0 /\ chunked /\ t[1] = "chunk" /\ t[2] = i
                              /\ t[3] <= NumChunks(n, chunk_size)
                      THEN "queued"
                      ELSE pc[t]]
          /\ rowsTodo' = [t \in Threads |->
                      IF df[i] = 0 THEN rowsTodo[t]
                      ELSE IF t = TagT(i) /\ ~chunked THEN Iota(1, n)
                      ELSE IF chunked /\ t[1] = "chunk" /\ t[2] = i
                              /\ t[3] <= NumChunks(n, chunk_size)
                      THEN Chunk(n, chunk_size, t[3])
                      ELSE rowsTodo[t]]
    /\ UNCHANGED <<others, config, saves, lock, tables, loadResult, raised>>

\* The row loop of _process_dataframe_rows and of _process_chunk: one
\* table.add_row() per row, then the loop ends.
add_row(t) ==
    /\ pc[t] = "rows"
    /\ IF rowsTodo[t] = <<>>
       THEN /\ pc' = [pc EXCEPT ![t] = "exit"]
            /\ UNCHANGED <<rowsTodo, tables>>
       ELSE /\ tables' = [tables EXCEPT ![t[2]] = Append(@, Head(rowsTodo[t]))]
            /\ rowsTodo' = [rowsTodo EXCEPT ![t] = Tail(@)]
            /\ UNCHANGED pc
    /\ UNCHANGED <<others, config, saves, lock, doc, df, loadResult, raised>>

\* ------------------------------------------------------- the specification
Next ==
    \/ render_submit
    \/ render_save
    \/ \E o \in Threads : executor_join(o)
    \/ \E t \in Threads : pool_start(t)
    \/ \E t \in Threads : lock_acquire(t)
    \/ \E t \in Threads : lock_release(t)
    \/ \E t \in Threads : add_row(t)
    \/ \E i \in 1..MaxNodes : add_paragraph(i)
    \/ \E i \in 1..MaxNodes : handle_base64_image(i)
    \/ \E i \in 1..MaxNodes : handle_dataframe(i)
    \/ \E i \in 1..MaxNodes : dataframe_load(i)
    \/ \E i \in 1..MaxNodes : dataframe_table(i)

Spec == Init /\ [][Next]_vars

\* Threads that can run do run: the interpreter schedules every runnable
\* thread, and a released lock is handed to a waiting thread.
FairSpec == Spec /\ WF_vars(Next)

\* render() called again on the same object: the same template_content is
\* parsed and submitted again, self.document is the one built so far.
render_again ==
    /\ renderPc = "sealed"
    /\ saves < MaxRenders
    /\ pc' = [t \in Threads |-> IF t = Main THEN "ready" ELSE "absent"]
    /\ rowsTodo' = [t \in Threads |-> <<>>]
    /\ df' = [i \in 1..MaxNodes |-> 0]
    /\ loadResult' = [i \in 1..MaxNodes |-> "-"]
    /\ raised' = [i \in 1..MaxNodes |-> FALSE]
    /\ UNCHANGED <<others, config, saves, lock, doc, tables>>

SessionNext == Next \/ render_again

\* A session object over several calls of render().
SessionSpec == Init /\ [][SessionNext]_vars

\* ------------------------------------------------ _format_template_to_html
\* A line of the raw template, by what the function reads of it: whether its
\* stripped text is empty, whether it starts with '#', and how many '<' and
\* '>' it holds.
Line(kind, lt, gt) == [kind |-> kind, lt |-> lt, gt |-> gt]

LineKinds ==
    {Line("blank", 0, 0), Line("comment", 0, 0)}
    \cup {Line("content", a, b) : a \in 0..MaxBrackets, b \in 0..MaxBrackets}

\* _contains_html_tags: '<' in line and '>' in line
contains_html_tags(l) == l.lt > 0 /\ l.gt > 0

\* _is_complete_html_tag: equal counts of '<' and '>', and at least one
is_complete_html_tag(l) == l.lt = l.gt /\ l.lt > 0

\* An emitted unit: what it is and the input lines its text came from, in the
\* order in which ''.join puts them.
Unit(kind, src) == [kind |-> kind, src |-> src]

NormInit ==
    /\ lines \in SeqsUpTo(LineKinds, MaxLines)
    /\ lineNo = 1
    /\ html_lines = <<>>
    /\ in_html_block = FALSE
    /\ current_html_block = <<>>
    /\ normDone = FALSE

AtLine == ~normDone /\ lineNo \in 1..Len(lines)

\* lines 123-130: an empty line is a "<br/>" of the open block, or "<p></p>".
norm_blank ==
    /\ AtLine
    /\ lines[lineNo].kind = "blank"
    /\ IF in_html_block
       THEN /\ current_html_block' = Append(current_html_block, lineNo)
            /\ UNCHANGED html_lines
       ELSE /\ html_lines' = Append(html_lines, Unit("empty_p", <<lineNo>>))
            /\ UNCHANGED current_html_block
    /\ lineNo' = lineNo + 1
    /\ UNCHANGED <<notNorm, lines, in_html_block, normDone>>

\* lines 133-134: a comment line is skipped.
norm_comment ==
    /\ AtLine
    /\ lines[lineNo].kind = "comment"
    /\ lineNo' = lineNo + 1
    /\ UNCHANGED <<notNorm, lines, html_lines, in_html_block, current_html_block, normDone>>

\* lines 137-150: a line with '<' and '>'.  Pending text is closed as a
\* paragraph; a complete line is emitted at once; any other line opens (or
\* continues) the block.
norm_markup ==
    /\ AtLine
    /\ lines[lineNo].kind = "content"
    /\ contains_html_tags(lines[lineNo])
    /\ LET closeText == ~in_html_block /\ current_html_block # <<>>
           emitted == IF closeText
                      THEN Append(html_lines, Unit("p", current_html_block))
                      ELSE html_lines
           pending == IF closeText THEN <<>> ELSE current_html_block
       IN IF is_complete_html_tag(lines[lineNo])
          THEN /\ html_lines' = Append(emitted, Unit("markup", <<lineNo>>))
               /\ current_html_block' = pending
               /\ UNCHANGED in_html_block
          ELSE /\ html_lines' = emitted
               /\ current_html_block' = Append(pending, lineNo)
               /\ in_html_block' = TRUE
    /\ lineNo' = lineNo + 1
    /\ UNCHANGED <<notNorm, lines, normDone>>

\* lines 151-160: a line without both brackets.  An open block is emitted and
\* closed; the text is kept for a paragraph.
norm_text ==
    /\ AtLine
    /\ lines[lineNo].kind = "content"
    /\ ~contains_html_tags(lines[lineNo])
    /\ IF in_html_block
       THEN /\ html_lines' = Append(html_lines, Unit("block", current_html_block))
            /\ current_html_block' = <<lineNo>>
       ELSE /\ current_html_block' = Append(current_html_block, lineNo)
            /\ UNCHANGED html_lines
    /\ in_html_block' = FALSE
    /\ lineNo' = lineNo + 1
    /\ UNCHANGED <<notNorm, lines, normDone>>

\* lines 162-169: what is left is emitted as a block or as a paragraph.
norm_finish ==
    /\ ~normDone
    /\ lineNo = Len(lines) + 1
    /\ html_lines' = IF current_html_block = <<>> THEN html_lines
                     ELSE Append(html_lines,
                                 Unit(IF in_html_block THEN "block" ELSE "p",
                                      current_html_block))
    /\ normDone' = TRUE
    /\ UNCHANGED <<notNorm, lines, lineNo, in_html_block, current_html_block>>

NormNext == norm_blank \/ norm_comment \/ norm_markup \/ norm_text \/ norm_finish

NormSpecInit == NormInit /\ RenderIdle /\ BindIdle /\ ListIdle /\ ImageIdle /\ HeadingIdle /\ BlankIdle

\* The normalizer run on a raw template.
NormSpec == NormSpecInit /\ [][NormNext]_vars

\* ------------------------------- __init__, validate_template, render: text
\* A one-line template as the words and placeholders it is made of.  Txt is a
\* word, Ph(n) the placeholder <n/>, Val(n) the string put in its place.
Names == {"x", "y"}
Txt == [t |-> "text", name |-> "-"]
Ph(n) == [t |-> "ph", name |-> n]
Val(n) == [t |-> "val", name |-> n]
RawTexts == SeqsUpTo({Txt} \cup {Ph(n) : n \in Names}, MaxTokens)

Placeholders(text) == {text[k].name : k \in {j \in 1..Len(text) : text[j].t = "ph"}}

\* _replace_variables: every <key/> of a key of the context becomes the
\* string of its value; other placeholders stay.
replace_variables(text, ctx) ==
    [k \in 1..Len(text) |->
        IF text[k].t = "ph" /\ text[k].name \in ctx THEN Val(text[k].name) ELSE text[k]]

\* (mutant: the test `if not context` is missing)
InputErrorNoContextCheck(file, content, ctx) ==
    IF file # "none"
    THEN (IF file = "missing" THEN "FileNotFoundError" ELSE "none")
    ELSE IF content THEN "none" ELSE "ValueError"

\* __init__, lines 43-54: what the arguments make it raise.
InputError(file, content, ctx) ==
    IF file # "none"
    THEN (IF ctx = {} THEN "ValueError"
          ELSE IF file = "missing" THEN "FileNotFoundError" ELSE "none")
    ELSE IF content THEN "none" ELSE "ValueError"

\* _format_template_to_html on one line: a line with a placeholder has as
\* many '<' as '>' and is emitted as it is; a line of words is wrapped in <p>.
FormatOneLine(text) == [wrapped |-> Placeholders(text) = {}, tokens |-> text]

BindInit ==
    /\ template_file \in {"none", "missing", "exists"}
    /\ content_given \in BOOLEAN
    /\ context \in SUBSET Names
    /\ rawText \in RawTexts
    /\ template_content = [wrapped |-> FALSE, tokens |-> <<>>]
    /\ sessionPc = "new"
    /\ documentCreated = FALSE
    /\ docText = <<>>
    /\ validation_result = <<>>

\* __init__, lines 37-54: the arguments are checked; a file is read and bound,
\* a content string is taken as it is.
init_template ==
    /\ sessionPc = "new"
    /\ LET err == InputError(template_file, content_given, context)
       IN IF err # "none"
          THEN /\ sessionPc' = "raised"
               /\ UNCHANGED template_content
          ELSE /\ sessionPc' = "loaded"
               /\ template_content' =
                     [wrapped |-> FALSE,
                      tokens |-> IF template_file # "none"
                                 THEN replace_variables(rawText, context)
                                 ELSE rawText]
    /\ UNCHANGED <<notBind, template_file, content_given, context, rawText,
                   documentCreated, docText, validation_result>>

\* __init__, lines 55-70: the content is normalized and the document is set up.
init_document ==
    /\ sessionPc = "loaded"
    /\ template_content' = FormatOneLine(template_content.tokens)
    /\ documentCreated' = TRUE
    /\ sessionPc' = "constructed"
    /\ UNCHANGED <<notBind, template_file, content_given, context, rawText,
                   docText, validation_result>>

\* The messages of validate_template.
NotFound(n) == [message |-> "not_found", names |-> {n}]
MissingVariables(names) == [message |-> "missing_variables", names |-> names]

\* (mutant: missing names are reported as errors)
ValidationResultAsErrors(tc, ctx) ==
    [is_valid |-> Placeholders(tc.tokens) \subseteq ctx,
     errors |-> {NotFound(n) : n \in Placeholders(tc.tokens) \ ctx},
     warnings |-> {},
     tag_count |-> IF tc.wrapped THEN 1 ELSE Cardinality({k \in 1..Len(tc.tokens) : tc.tokens[k].t = "ph"}),
     variable_count |-> Cardinality(Placeholders(tc.tokens))]

\* validate_template, lines 570-610: the names matched by <(\w+)/> that the
\* context lacks give one warning each and one summary warning.
ValidationResult(tc, ctx) ==
    LET missing == Placeholders(tc.tokens) \ ctx
    IN [is_valid |-> TRUE,
        errors |-> {},
        warnings |-> {NotFound(n) : n \in missing}
                     \cup (IF missing # {} THEN {MissingVariables(missing)} ELSE {}),
        tag_count |-> IF tc.wrapped THEN 1
                      ELSE Cardinality({k \in 1..Len(tc.tokens) : tc.tokens[k].t = "ph"}),
        variable_count |-> Cardinality(Placeholders(tc.tokens))]

\* (mutant: the validator binds the template in place before it checks it)
validate_template_rebinds ==
    /\ sessionPc \in {"constructed", "rendered"}
    /\ template_content' = FormatOneLine(replace_variables(template_content.tokens, context))
    /\ validation_result' = <<ValidationResult(template_content', context)>>
    /\ UNCHANGED <<notBind, template_file, content_given, context, rawText,
                   sessionPc, documentCreated, docText>>

validate_template ==
    /\ sessionPc \in {"constructed", "rendered"}
    /\ validation_result' = <<ValidationResult(template_content, context)>>
    /\ UNCHANGED <<notBind, template_file, content_given, context, rawText,
                   template_content, sessionPc, documentCreated, docText>>

\* What render() puts into the document for a one-line template.  The parser
\* makes of <n/> an empty Tag named n.  A wrapped line is one p Tag: one
\* paragraph with a run per text leaf.  Of an unwrapped line only the Tags are
\* submitted, each to _add_paragraph, which finds no text in it.
RenderDoc(tc) ==
    IF tc.wrapped
    THEN <<SelectSeq(tc.tokens, LAMBDA tok : tok.t # "ph")>>
    ELSE [k \in 1..Len(SelectSeq(tc.tokens, LAMBDA tok : tok.t = "ph")) |-> <<>>]

render_content ==
    /\ sessionPc = "constructed"
    /\ docText' = docText \o RenderDoc(template_content)
    /\ sessionPc' = "rendered"
    /\ UNCHANGED <<notBind, template_file, content_given, context, rawText,
                   template_content, documentCreated, validation_result>>

BindNext == init_template \/ init_document \/ validate_template \/ render_content

BindSpecInit == BindInit /\ RenderIdle /\ NormIdle /\ ListIdle /\ ImageIdle /\ HeadingIdle /\ BlankIdle

\* A session from its construction to its render, by the text it handles.
BindSpec == BindSpecInit /\ [][BindNext]_vars

\* ------------------------------------------------------------ _handle_list
\* A ul/ol Tag of depth at most two.  An li is the lists nested in it; its own
\* text stands before them and is named by the path that leads to the li.
SeqsFrom(S, lo, hi) == UNION {[1..n -> S] : n \in lo..hi}
ListTags == {"ul", "ol"}
LeafItem == [nested |-> <<>>]
InnerLists == {[tag |-> t, items |-> its] :
                  t \in ListTags, its \in SeqsFrom({LeafItem}, 1, MaxItems)}
OuterItems == {[nested |-> ns] : ns \in SeqsFrom(InnerLists, 0, MaxNested)}
OuterLists == {[tag |-> t, items |-> its] :
                  t \in ListTags, its \in SeqsFrom(OuterItems, 1, MaxItems)}

ListStyle(tag) == IF tag = "ul" THEN "List Bullet" ELSE "List Number"

ConcatAll(ss) ==
    LET RECURSIVE cat(_)
        cat(k) == IF k > Len(ss) THEN <<>> ELSE ss[k] \o cat(k + 1)
    IN cat(1)

\* _handle_inline_formatting(li, paragraph): a run for every text leaf below
\* li, at any depth, in document order.
RECURSIVE InlineRuns(_, _)
InlineRuns(li, path) ==
    <<path>> \o ConcatAll([j \in 1..Len(li.nested) |->
                ConcatAll([k \in 1..Len(li.nested[j].items) |->
                    InlineRuns(li.nested[j].items[k], path \o <<j, k>>)])])

\* The list paragraphs with, for each li, a run of its own text only.
RECURSIVE handle_list_own_text(_, _)
handle_list_own_text(tag, path) ==
    ConcatAll([i \in 1..Len(tag.items) |->
        <<[style |-> ListStyle(tag.tag), runs |-> <<path \o <<i>> >>]>>
        \o ConcatAll([j \in 1..Len(tag.items[i].nested) |->
               handle_list_own_text(tag.items[i].nested[j], path \o <<i, j>>)])])

\* _handle_list: for each direct li a list paragraph with its inline runs,
\* then _handle_list of each list nested directly in it.
RECURSIVE handle_list(_, _)
handle_list(tag, path) ==
    ConcatAll([i \in 1..Len(tag.items) |->
        <<[style |-> ListStyle(tag.tag),
           runs |-> InlineRuns(tag.items[i], path \o <<i>>)]>>
        \o ConcatAll([j \in 1..Len(tag.items[i].nested) |->
               handle_list(tag.items[i].nested[j], path \o <<i, j>>)])])

ListInit ==
    /\ listTag \in OuterLists
    /\ listParagraphs = <<>>
    /\ listPc = "ready"

list_call ==
    /\ listPc = "ready"
    /\ listParagraphs' = handle_list(listTag, <<>>)
    /\ listPc' = "done"
    /\ UNCHANGED <<notList, listTag>>

ListSpecInit == ListInit /\ RenderIdle /\ NormIdle /\ BindIdle /\ ImageIdle /\ HeadingIdle /\ BlankIdle

\* One call of the list handler on a ul/ol Tag.
ListSpec == ListSpecInit /\ [][list_call]_vars

\* ----------------------------------------------------------- _handle_image
\* Lengths are in hundredths of an inch; a product with a float factor and a
\* quotient keep their whole part.
SizeValues == {<<1169, 1654>>, <<827, 1169>>, <<583, 827>>,
               <<850, 1100>>, <<850, 1400>>, <<1100, 1700>>}
\* _document_setup: landscape swaps the two dimensions.
PageDimensions == SizeValues \cup {<<s[2], s[1]>> : s \in SizeValues}
DefaultMaxSize == <<530, 350>>
MaxSizes == {DefaultMaxSize, <<1200, 1200>>}
TagSizes == {<<0, 0>>, <<200, 0>>, <<0, 200>>, <<200, 200>>}
WidthShare == 60
MaxWidthShare == 90
MaxHeightShare == 80

\* _get_image_size with target_height 0.0.
get_image_size(page, img) ==
    LET target_width == (page[1] * WidthShare) \div 100
        target_height == (target_width * img[2]) \div img[1]
        max_width == (page[1] * MaxWidthShare) \div 100
        max_height == (page[2] * MaxHeightShare) \div 100
        w1 == IF target_width > max_width THEN max_width ELSE target_width
        h1 == IF target_width > max_width THEN (w1 * img[2]) \div img[1] ELSE target_height
        h2 == IF h1 > max_height THEN max_height ELSE h1
        w2 == IF h1 > max_height THEN (h2 * img[1]) \div img[2] ELSE w1
    IN <<w2, h2>>

\* _handle_image, lines 298-308: the attributes of the tag replace the
\* computed sides; without them each side is cut to image_max_size.
FitBox(size, box, tag) ==
    IF tag[1] # 0 \/ tag[2] # 0
    THEN <<IF tag[1] # 0 THEN tag[1] ELSE size[1], IF tag[2] # 0 THEN tag[2] ELSE size[2]>>
    ELSE IF size[1] > box[1] \/ size[2] > box[2]
         THEN <<Min(size[1], box[1]), Min(size[2], box[2])>>
         ELSE size

ImageInit ==
    /\ page_dimensions \in PageDimensions
    /\ image_max_size \in MaxSizes
    /\ img_size \in (1..MaxImageSide) \X (1..MaxImageSide)
    /\ tag_size \in TagSizes
    /\ picture = <<>>
    /\ imagePc = "ready"

image_call ==
    /\ imagePc = "ready"
    /\ picture' = FitBox(get_image_size(page_dimensions, img_size), image_max_size, tag_size)
    /\ imagePc' = "done"
    /\ UNCHANGED <<notImage, page_dimensions, image_max_size, img_size, tag_size>>

ImageSpecInit == ImageInit /\ RenderIdle /\ NormIdle /\ BindIdle /\ ListIdle /\ HeadingIdle /\ BlankIdle

\* One call of the image handler on an image file that exists and opens.
ImageSpec == ImageSpecInit /\ [][image_call]_vars

\* --------------------------------------------------------- _handle_heading
\* A tag name is the sequence of its characters: f'h{i}' is "h" and the
\* decimal digits of i.
DigitChars == <<"0", "1", "2", "3", "4", "5", "6", "7", "8", "9">>
RECURSIVE Str(_)
Str(n) == IF n < 10 THEN <<DigitChars[n + 1]>>
          ELSE Str(n \div 10) \o <<DigitChars[(n % 10) + 1]>>
HeadingName(i) == <<"h">> \o Str(i)

\* str.isdigit() and int() of a string of decimal digits.
isdigit(str) ==
    /\ str # <<>>
    /\ \A k \in 1..Len(str) : \E d \in 1..Len(DigitChars) : str[k] = DigitChars[d]
DigitValue(ch) == (CHOOSE d \in 1..Len(DigitChars) : DigitChars[d] = ch) - 1
RECURSIVE int(_)
int(str) == IF str = <<>> THEN 0
            ELSE 10 * int(SubSeq(str, 1, Len(str) - 1)) + DigitValue(str[Len(str)])

\* tag.name[1:-1]: the characters after the first and before the last.
LevelPart(name) == SubSeq(name, 2, Len(name) - 1)

\* _handle_heading, line 365.
HeadingLevel(name) == IF isdigit(LevelPart(name)) THEN int(LevelPart(name)) ELSE 1

\* document.add_heading accepts the levels 0 to 9.
MaxDocxLevel == 9

HeadingInit ==
    /\ heading_levels \in 1..MaxHeadingLevels
    /\ headingTag \in {HeadingName(i) : i \in 1..(MaxHeadingLevels + 1)}
    /\ headings = <<>>
    /\ headingPc = "ready"

\* _process_tag on a Tag named h<i>: _handle_heading when the registry holds
\* the name (i <= heading_levels), else _add_paragraph.
heading_call ==
    /\ headingPc = "ready"
    /\ IF headingTag \in {HeadingName(i) : i \in 1..heading_levels}
       THEN IF HeadingLevel(headingTag) <= MaxDocxLevel
            THEN /\ headings' = <<[kind |-> "heading", level |-> HeadingLevel(headingTag),
                                   alignment |-> "left"]>>
                 /\ headingPc' = "done"
            ELSE /\ headings' = <<>>
                 /\ headingPc' = "raised"
       ELSE /\ headings' = <<[kind |-> "paragraph", level |-> 0, alignment |-> "default"]>>
            /\ headingPc' = "done"
    /\ UNCHANGED <<notHeading, heading_levels, headingTag>>

HeadingSpecInit ==
    HeadingInit /\ RenderIdle /\ NormIdle /\ BindIdle /\ ListIdle /\ ImageIdle /\ BlankIdle

\* One heading Tag given to the dispatcher.
HeadingSpec == HeadingSpecInit /\ [][heading_call]_vars

\* ----------------------------------------------------- _handle_blank_table
\* An attribute that holds a number, as tag.get() returns it.
Absent == [kind |-> "absent", n |-> 0]
NotANumber == [kind |-> "text", n |-> 0]
Number(n) == [kind |-> "int", n |-> n]
AttrValues(max) == {Absent, NotANumber} \cup {Number(n) : n \in 1..max}

\* The texts of header cells: the j-th declared name, "Column N", "".
DeclaredName(j) == [text |-> "name", n |-> j]
ColumnN(N) == [text |-> "Column", n |-> N]
EmptyText == [text |-> "", n |-> 0]

\* int(tag.get(attr, 1)): the default is for a missing attribute only.
IntRaises(attr) == attr.kind = "text"
IntOf(attr) == IF attr.kind = "absent" THEN 1 ELSE attr.n

\* tag.get('columns_name', '').split(','): ''.split(',') is [''].
SplitNames(k) == IF k = 0 THEN <<EmptyText>> ELSE [j \in 1..k |-> DeclaredName(j)]

Max(a, b) == IF a > b THEN a ELSE b

\* lines 380-382: the names are filled up to _table_columns with "Column i+1".
FilledNames(names, table_columns) ==
    [i \in 1..Max(Len(names), table_columns) |->
        IF i <= Len(names) THEN names[i] ELSE ColumnN(i)]

\* lines 375-392: the table as the handler leaves it.  add_table makes _rows
\* rows of _columns cells; header_cells[i] beyond the last cell raises
\* IndexError; each pass of `for _ in range(1, _rows)` adds one more row.
BlankTable(rows, columns, k) ==
    LET names == FilledNames(SplitNames(k), Max(columns, Len(SplitNames(k))))
        indexError == Len(names) > columns
    IN [rows |-> IF indexError THEN rows ELSE rows + (rows - 1),
        columns |-> columns,
        header |-> [i \in 1..columns |-> names[i]],
        raised |-> indexError]

BlankInit ==
    /\ rows_attr \in AttrValues(MaxTableRows)
    /\ columns_attr \in AttrValues(MaxTableCols)
    /\ columns_name_attr \in 0..MaxNames
    /\ blank_tables = <<>>
    /\ blankPc = "ready"

\* lines 373-374: int() of an attribute that is not a number raises ValueError.
AttributeRaises(attrs) == \E a \in attrs : IntRaises(a)

\* _process_tag on a blank_table Tag: an exception of the handler is caught
\* and printed; what the handler added before it stays in the document.
blank_table_call ==
    /\ blankPc = "ready"
    /\ IF AttributeRaises({rows_attr, columns_attr})
       THEN /\ blank_tables' = <<>>
            /\ blankPc' = "raised"
       ELSE LET table == BlankTable(IntOf(rows_attr), IntOf(columns_attr), columns_name_attr)
            IN /\ blank_tables' = <<[rows |-> table.rows, columns |-> table.columns,
                                     header |-> table.header]>>
               /\ blankPc' = IF table.raised THEN "raised" ELSE "done"
    /\ UNCHANGED <<notBlank, rows_attr, columns_attr, columns_name_attr>>

BlankSpecInit ==
    BlankInit /\ RenderIdle /\ NormIdle /\ BindIdle /\ ListIdle /\ ImageIdle /\ HeadingIdle

\* One blank_table Tag given to the dispatcher.
BlankSpec == BlankSpecInit /\ [][blank_table_call]_vars

\* ------------------------------------------------------- reading the output
\* The top-level fragments node i has appended, in append order.
NodeFrags(i) == SelectSeq(doc, LAMBDA f : f.node = i)

IsPrefix(a, b) == Len(a) <= Len(b) /\ \A k \in 1..Len(a) : a[k] = b[k]

TagDone(i) == i \in NodeIds /\ IsTag(i) /\ pc[TagT(i)] = "done"

\* Node i is a dataframe whose table has been added and whose rows are due.
TableLoaded(i) == i \in NodeIds /\ pc[TagT(i)] \in {"rows", "wait_chunks"}
Chunked(i) == i \in NodeIds /\ pc[TagT(i)] = "wait_chunks"

\* What the handler of a finished node has put into the document.
OutputInDocument(i) ==
    CASE template[i].tag = "p" -> NodeFrags(i) = <<Fragment(i, "paragraph")>>
      [] template[i].tag = "base64-image" ->
            NodeFrags(i) = [k \in 1..Len(Base64Output(template[i].input)) |->
                              Fragment(i, Base64Output(template[i].input)[k])]
      [] template[i].tag = "dataframe" ->
            /\ Len(NodeFrags(i)) = 1
            /\ NodeFrags(i)[1].kind \in {"error", "table"}
            /\ NodeFrags(i)[1].kind = "table" => tables[i] = Iota(1, df[i])
      [] OTHER -> NodeFrags(i) = <<>>

\* ------------------------------------------------------------------ claims

\* C1: the top-level fragments of the document are in the order of the
\* top-level nodes of the template, for every max_workers and interleaving:
\* no fragment of a later node precedes a fragment of an earlier node.
C1_DocumentOrder ==
    \A a, b \in 1..Len(doc) : a < b => doc[a].node <= doc[b].node

\* C2: under fair scheduling every render() eventually saves the document,
\* also when a dataframe node has more rows than chunk_size.
C2_RenderEventuallySaves == <>(renderPc = "sealed")

\* C3: the chunks of a table with more than chunk_size rows are appended in
\* chunk-index order, so the table ends up with its data rows in the original
\* row order.
C3_ChunksInRowOrder ==
    /\ [](\A i \in 1..MaxNodes : IsPrefix(tables[i], Iota(1, MaxRows)))
    /\ \A i \in 1..MaxNodes : Chunked(i) ~> (TagDone(i) /\ tables[i] = Iota(1, df[i]))

\* C4: every row of a loaded table with n rows is appended exactly once, so
\* the finished table holds rows 1..n: through the chunks when n > chunk_size,
\* through the handler's own loop otherwise.
C4_EveryRowOnce ==
    /\ [](\A i \in 1..MaxNodes : \A a, b \in 1..Len(tables[i]) :
             a # b => tables[i][a] # tables[i][b])
    /\ \A i \in 1..MaxNodes : TableLoaded(i) ~> (Len(tables[i]) = df[i] /\ TagDone(i))

\* C5: render() saves only after the handler of every submitted node has
\* finished and its output is in the document, and nothing is appended to the
\* document or to a table once the save has started.
C5_AllFinishedAtSave ==
    renderPc \in {"save", "sealed"} =>
        /\ lock = None
        /\ \A t \in Threads \ {Main} : pc[t] \in {"absent", "done"}
        /\ \A i \in NodeIds : IsTag(i) => TagDone(i) /\ OutputInDocument(i)

C5_NoAppendAfterSave ==
    renderPc \in {"save", "sealed"} => (doc' = doc /\ tables' = tables)

C5_SaveAfterAllHandlers ==
    /\ []C5_AllFinishedAtSave
    /\ [][C5_NoAppendAfterSave]_vars

C5_Witness ==
    /\ renderPc = "sealed"
    /\ Len(template) = 2 /\ TagDone(1) /\ TagDone(2)
    /\ Len(doc) = 2
    /\ \E i \in NodeIds : tables[i] # <<>>

\* C6: every append to the document or to a table is made by the thread that
\* holds the lock, and no two threads are inside a handler or a row loop at
\* the same time.
InCriticalSection(t) == pc[t] \in {"handler", "loading", "loaded", "rows", "wait_chunks", "exit"}

C6_OnlyHolderInside == \A t \in Threads : InCriticalSection(t) => lock = t

C6_AppendByHolder ==
    (doc' # doc \/ tables' # tables) =>
        /\ lock # None
        /\ lock' = lock
        /\ pc'[lock] # pc[lock] \/ rowsTodo'[lock] # rowsTodo[lock]
        /\ \A t \in Threads \ {lock} : rowsTodo'[t] = rowsTodo[t] \/ pc[t] = "absent"

C6_MutationsUnderLock ==
    /\ []C6_OnlyHolderInside
    /\ [][C6_AppendByHolder]_vars

C6_Witness ==
    /\ \E t \in Threads : lock = t /\ pc[t] = "rows" /\ tables[t[2]] # <<>>
    /\ \E u \in Threads : pc[u] = "wait_lock"

\* C7: no worker holds the lock while its handler is in a blocking data load.
C7_NoLockWhileLoading == \A t \in Threads : pc[t] = "loading" => lock # t

\* C8: when the handler of a node raises, every other top-level node is still
\* processed with its output appended, and render() saves the document.
C8_ExceptionIsolated ==
    (\E i \in 1..MaxNodes : raised[i]) ~>
        (/\ renderPc = "sealed"
         /\ \A i \in NodeIds : IsTag(i) /\ ~raised[i] => TagDone(i) /\ OutputInDocument(i))

\* C9: a node whose handler raised contributes exactly one error marker, and
\* nothing else, to the document.
C9_RaisedNodeHasOneMarker ==
    \A i \in 1..MaxNodes :
        raised[i] /\ TagDone(i) => NodeFrags(i) = <<Fragment(i, "error")>>

\* C10: a dataframe node whose src does not exist, whose load fails or whose
\* loaded result is empty adds exactly one error paragraph and no table, raises
\* nothing and gives the lock back.
FailedLoad(i) ==
    \/ loadResult[i] \in {"src_missing", "error", "non200"}
    \/ loadResult[i] = "ok" /\ df[i] = 0

C10_FailedLoadOneError ==
    \A i \in NodeIds :
        template[i].tag = "dataframe" /\ FailedLoad(i) =>
            /\ \A k \in 1..Len(NodeFrags(i)) : NodeFrags(i)[k].kind = "error"
            /\ Len(NodeFrags(i)) <= 1
            /\ tables[i] = <<>>
            /\ ~raised[i]
            /\ pc[TagT(i)] \in {"exit", "done"} => Len(NodeFrags(i)) = 1
            /\ pc[TagT(i)] = "done" => lock # TagT(i)

C10_Witness ==
    /\ Len(template) = 2
    /\ template[1].tag = "dataframe" /\ loadResult[1] = "error"
    /\ template[2].tag = "p"
    /\ renderPc = "sealed"
    /\ doc = <<Fragment(1, "error"), Fragment(2, "paragraph")>>

\* C20: the document of a session is saved exactly once, and nothing is
\* appended to the document or to a table after it has been saved, for any
\* sequence of render() calls on the session object.
C20_NothingAfterSave ==
    saves >= 1 => (saves' = saves /\ doc' = doc /\ tables' = tables)

C20_SealedOnce == [][C20_NothingAfterSave]_vars

\* The input lines of the emitted units, in output order.
RECURSIVE Flatten(_)
Flatten(units) ==
    IF units = <<>> THEN <<>> ELSE Head(units).src \o Flatten(Tail(units))

RECURSIVE SumBrackets(_, _)
SumBrackets(block, lt) ==
    IF block = <<>> THEN 0
    ELSE LET l == lines[Head(block)]
         IN (IF l.kind = "blank" THEN 1 ELSE IF lt THEN l.lt ELSE l.gt)
            + SumBrackets(Tail(block), lt)

\* The accumulated block has as many '<' as '>' (a blank line is "<br/>").
Balanced(block) == SumBrackets(block, TRUE) = SumBrackets(block, FALSE)

\* C15: the emitted units are in the order of the input lines they came from.
C15_UnitsInInputOrder ==
    \A a, b \in 1..Len(Flatten(html_lines)) :
        a < b => Flatten(html_lines)[a] < Flatten(html_lines)[b]

\* C16: inside a multi-line block every following line is appended to the
\* block, and the block is emitted and left as soon as it is balanced; only at
\* the end of the input an unbalanced block is emitted.
C16_LineJoinsBlock ==
    (in_html_block /\ lineNo' = lineNo + 1 /\ lines[lineNo].kind # "comment") =>
        \/ current_html_block' = Append(current_html_block, lineNo)
        \/ /\ html_lines' = Append(html_lines,
                                   Unit("block", Append(current_html_block, lineNo)))
           /\ Balanced(Append(current_html_block, lineNo))
           /\ ~in_html_block'

C16_BlockUntilBalanced ==
    /\ [](in_html_block => ~Balanced(current_html_block))
    /\ [][C16_LineJoinsBlock]_vars

\* C11: when the parser runs, no placeholder of a name of the context is left
\* in the template, for a template file and for a content string alike.
C11_BoundBeforeParse ==
    sessionPc \in {"constructed", "rendered"} =>
        Placeholders(template_content.tokens) \cap context = {}

\* C12: a placeholder of a name the context lacks is left as it is by the
\* binder and is in the rendered document as the literal text <name/>.
C12_UnresolvedKeptLiteral ==
    sessionPc = "rendered" =>
        \A n \in Placeholders(rawText) \ context :
            /\ n \in Placeholders(template_content.tokens)
            /\ \E k \in 1..Len(docText) : \E j \in 1..Len(docText[k]) :
                  docText[k][j] = Ph(n)

\* C13: validate_template reports every placeholder name of the template that
\* the context lacks as a warning; errors stay empty and is_valid stays true.
C13_MissingAreWarnings ==
    validation_result # <<>> =>
        /\ validation_result[1].is_valid
        /\ validation_result[1].errors = {}
        /\ \A n \in Names :
              (NotFound(n) \in validation_result[1].warnings)
                 <=> (n \notin context
                      /\ \E k \in 1..Len(template_content.tokens) :
                            template_content.tokens[k] = Ph(n))

C13_Witness ==
    /\ validation_result # <<>>
    /\ NotFound("x") \in validation_result[1].warnings
    /\ context = {"y"}

\* C14: validate_template returns a result and changes neither the template
\* content, the context nor the document, and the document of a later render
\* is the one the arguments of the session determine.
ExpectedContent ==
    FormatOneLine(IF template_file # "none"
                  THEN replace_variables(rawText, context) ELSE rawText)

C14_ValidateStep ==
    validation_result' # validation_result =>
        /\ validation_result'[1].is_valid \in BOOLEAN
        /\ UNCHANGED <<template_content, context, rawText, docText,
                       documentCreated, sessionPc>>

C14_ValidateChangesNothing ==
    /\ [][C14_ValidateStep]_vars
    /\ [](sessionPc = "rendered" => docText = RenderDoc(ExpectedContent))

C14_Witness ==
    /\ sessionPc = "rendered"
    /\ validation_result # <<>>
    /\ validation_result[1].warnings # {}
    /\ Len(docText) = 2

\* C19: a session given neither a file nor a content string, a file that does
\* not exist, or a file without a context raises, and then no document exists
\* and nothing has been rendered.
InputInvalid ==
    \/ template_file = "none" /\ ~content_given
    \/ template_file = "missing"
    \/ template_file # "none" /\ context = {}

C19_BadInputRaisesFirst ==
    InputInvalid =>
        /\ sessionPc \in {"new", "raised"}
        /\ ~documentCreated
        /\ docText = <<>>
        /\ validation_result = <<>>

C19_Witness ==
    /\ sessionPc = "raised"
    /\ template_file = "exists"
    /\ content_given
    /\ context = {}

\* C17: the list handler adds one list paragraph per li in pre-order, in the
\* numbered style for ol and the bullet style for ul, and the paragraph of an
\* li holds the li's own text only.
C17_ItemHoldsOwnText ==
    listPc = "done" => listParagraphs = handle_list_own_text(listTag, <<>>)

\* C18: for an image without width and height attributes the sides given to
\* add_picture keep the ratio of the image and lie within 90% of the page
\* width, 80% of the page height and the image_max_size box.
Abs(n) == IF n < 0 THEN -n ELSE n

C18_RatioKeptWithinLimits ==
    (imagePc = "done" /\ tag_size = <<0, 0>>) =>
        /\ Abs(picture[1] * img_size[2] - picture[2] * img_size[1])
              <= img_size[1] + img_size[2]
        /\ picture[1] * 100 <= page_dimensions[1] * MaxWidthShare
        /\ picture[2] * 100 <= page_dimensions[2] * MaxHeightShare
        /\ picture[1] <= image_max_size[1]
        /\ picture[2] <= image_max_size[2]

\* C25: every input line without an angle bracket that is neither blank nor a
\* comment is emitted as a paragraph element of its own that holds the text of
\* that line, whatever lines stand before and after it.
IsProse(l) == l.kind = "content" /\ l.lt = 0 /\ l.gt = 0

C25_ProseLineOwnParagraph ==
    normDone =>
        \A k \in 1..Len(lines) :
            IsProse(lines[k]) =>
                \E u \in 1..Len(html_lines) : html_lines[u] = Unit("p", <<k>>)

\* C22: every top-level node of the parsed template, a text leaf included, is
\* given to a handler exactly once (the handler of the registry, or the
\* generic paragraph handler): when render() saves, no node has been skipped.
Dispatched(i) == pc[TagT(i)] \notin {"absent", "queued"}

C22_EveryNodeDispatched ==
    /\ renderPc \in {"as_completed", "save", "sealed"} =>
          \A i \in NodeIds : pc[TagT(i)] # "absent"
    /\ renderPc \in {"save", "sealed"} => \A i \in NodeIds : Dispatched(i)

\* C21: for every k in 1..heading_levels the handler of the tag hk adds exactly
\* one left-aligned heading of level k.
C21_HeadingAtItsLevel ==
    headingPc # "ready" =>
        \A k \in 1..heading_levels :
            headingTag = HeadingName(k) =>
                /\ headingPc = "done"
                /\ headings = <<[kind |-> "heading", level |-> k, alignment |-> "left"]>>

\* C23: for a blank_table with C >= 1 columns and k >= 0 names in columns_name
\* the handler completes, and the header row holds the declared names in order
\* in the first columns and "Column N" in every column without a declared name.
C23_HeaderNamesFilled ==
    (blankPc # "ready" /\ columns_attr.kind = "int" /\ rows_attr.kind # "text") =>
        /\ blankPc = "done"
        /\ Len(blank_tables) = 1
        /\ blank_tables[1].header =
              [N \in 1..columns_attr.n |->
                  IF N <= columns_name_attr THEN DeclaredName(N) ELSE ColumnN(N)]

\* C24: a blank_table whose rows or columns attribute is not a number is
\* rendered as if that attribute were 1: the handler does not fail and one
\* table is added.
AsIfOne(attr) == IF attr.kind = "text" THEN 1 ELSE IntOf(attr)

C24_NonNumericTreatedAsOne ==
    (blankPc # "ready" /\ (rows_attr.kind = "text" \/ columns_attr.kind = "text")) =>
        /\ blankPc = "done"
        /\ Len(blank_tables) = 1
        /\ blank_tables[1].columns = AsIfOne(columns_attr)

\* C27: a blank_table with rows=R and columns=C, R >= 1 and C >= 1, yields a
\* table of exactly R rows, the header row included, and exactly C columns.
C27_ExactRowsAndColumns ==
    (blankPc # "ready" /\ rows_attr.kind = "int" /\ columns_attr.kind = "int") =>
        /\ Len(blank_tables) = 1
        /\ blank_tables[1].rows = rows_attr.n
        /\ blank_tables[1].columns = columns_attr.n

\* C26: in the chunked table path the rows of one chunk are appended to the
\* table as one uninterrupted run: once a chunk has appended a row and has
\* rows left, the next thing appended to the document or to a table is the
\* next row of that chunk, and every chunk of a chunked table gets its rows
\* appended.
MidChunk(t) ==
    /\ pc[t] = "rows"
    /\ rowsTodo[t] # <<>>
    /\ Len(rowsTodo[t]) < Len(Chunk(df[t[2]], chunk_size, t[3]))

C26_NextAppendIsOwnRow ==
    \A t \in ChunkThreads :
        (MidChunk(t) /\ <<doc, tables>>' # <<doc, tables>>) =>
            /\ doc' = doc
            /\ tables' = [tables EXCEPT ![t[2]] = Append(@, Head(rowsTodo[t]))]

====
